---------------------------- MODULE Spec2Model ----------------------------
(***************************************************************************)
(* Deutsch-Jozsa demonstration (src/src/main.py).                          *)
(*                                                                         *)
(* The register of n_qubits input wires plus one ancilla (wire n_qubits)   *)
(* is a vector of 2^(n_qubits+1) amplitudes.  Wire 0 is the most           *)
(* significant bit of a basis index, as on PennyLane's default.qubit.      *)
(* Every gate the script uses (PauliX, Hadamard, CNOT) has real entries in *)
(* Z[1/sqrt 2], so the state is kept exactly: the amplitude of basis state *)
(* b is amp[b] / (sqrt 2)^hexp with amp[b] an integer.  A probability      *)
(* v / shots is kept as the pair <<v, shots>>.                             *)
(***************************************************************************)
EXTENDS Integers, Sequences, FiniteSets, TLC

VARIABLES n_qubits, shots, pc, tc, amp, hexp, i, tape, samples, results,
          bitstrings, counts, probabilities, zero_prob, result, correct,
          classical_queries, test_results, ngates

vars == <<n_qubits, shots, pc, tc, amp, hexp, i, tape, samples, results,
          bitstrings, counts, probabilities, zero_prob, result, correct,
          classical_queries, test_results, ngates>>

\* Bounds of the model.
MaxN == 3
MaxShots == 2
MaxGateN == 2
MaxGates == 3
MaxTallyN == 2
MaxTallyShots == 3
MaxClassN == 1
MaxClassShots == 10

\* The classification threshold 0.9, as the fraction ThresholdNum / ThresholdDen.
ThresholdNum == 9
ThresholdDen == 10

-----------------------------------------------------------------------------
(* Basis indices and gates *)

Dim == 2 ^ (n_qubits + 1)

Weight(q) == 2 ^ (n_qubits - q)

Bit(idx, q) == (idx \div Weight(q)) % 2

Flip(idx, q) == IF Bit(idx, q) = 0 THEN idx + Weight(q) ELSE idx - Weight(q)

\* |0...0>: amplitude 1 at index 0.
InitialState(n) == [idx \in 0 .. (2 ^ (n + 1) - 1) |-> IF idx = 0 THEN 1 ELSE 0]

PauliX(a, t) == [idx \in DOMAIN a |-> a[Flip(idx, t)]]

HadamardSameSign(a, t) == [idx \in DOMAIN a |-> a[idx] + a[Flip(idx, t)]]

\* Numerators after a Hadamard; the common denominator gains one sqrt 2.
Hadamard(a, t) ==
    [idx \in DOMAIN a |->
        IF Bit(idx, t) = 0 THEN a[idx] + a[Flip(idx, t)]
                           ELSE a[Flip(idx, t)] - a[idx]]

CNOTSwapped(a, c, t) ==
    [idx \in DOMAIN a |-> IF Bit(idx, t) = 1 THEN a[Flip(idx, c)] ELSE a[idx]]

CNOT(a, c, t) ==
    [idx \in DOMAIN a |-> IF Bit(idx, c) = 1 THEN a[Flip(idx, t)] ELSE a[idx]]

XGate(t) == [g |-> "PauliX", wires |-> <<t>>]
HGate(t) == [g |-> "Hadamard", wires |-> <<t>>]
CXGate(c, t) == [g |-> "CNOT", wires |-> <<c, t>>]

ApplyGate(a, op) ==
    CASE op.g = "PauliX" -> PauliX(a, op.wires[1])
      [] op.g = "Hadamard" -> Hadamard(a, op.wires[1])
      [] op.g = "CNOT" -> CNOT(a, op.wires[1], op.wires[2])

HexpAfterUnscaled(h, op) == h

\* Each Hadamard carries the factor 1 / sqrt 2.
HexpAfter(h, op) == IF op.g = "Hadamard" THEN h + 1 ELSE h

-----------------------------------------------------------------------------
(* Oracles and test cases *)

constant_oracle_0(n) == <<>>

constant_oracle_1(n) == <<XGate(n)>>

balanced_oracle_parity(n) == [j \in 1 .. n |-> CXGate(j - 1, n)]

balanced_oracle_first_half(n) == <<CXGate(0, n)>>

test_cases ==
    << [name |-> "Constant (f(x) = 0)", oracle |-> "constant_oracle_0", type |-> "constant"],
       [name |-> "Constant (f(x) = 1)", oracle |-> "constant_oracle_1", type |-> "constant"],
       [name |-> "Balanced (Parity)", oracle |-> "balanced_oracle_parity", type |-> "balanced"],
       [name |-> "Balanced (First Half)", oracle |-> "balanced_oracle_first_half", type |-> "balanced"] >>

OracleOps(o, n) ==
    CASE o = "constant_oracle_0" -> constant_oracle_0(n)
      [] o = "constant_oracle_1" -> constant_oracle_1(n)
      [] o = "balanced_oracle_parity" -> balanced_oracle_parity(n)
      [] o = "balanced_oracle_first_half" -> balanced_oracle_first_half(n)

\* The operations deutsch_jozsa_circuit's qnode queues, in order.
deutsch_jozsa_circuit(n, o) ==
    <<XGate(n)>> \o [j \in 1 .. (n + 1) |-> HGate(j - 1)]
                 \o OracleOps(o, n)
                 \o [j \in 1 .. n |-> HGate(j - 1)]

-----------------------------------------------------------------------------
(* deutsch_jozsa_probability *)

DeviceAcceptsAnyShots(s) == TRUE

\* qml.device(..., shots=shots) raises unless shots is a positive integer.
DeviceAcceptsShots(s) == s >= 1

Hadamard1Range(n) == n + 1

Hadamard2RangeWithAncilla(n) == n + 1

Hadamard2Range(n) == n

\* One queued operation, applied to the register.
Emit(op) ==
    /\ amp' = ApplyGate(amp, op)
    /\ hexp' = HexpAfter(hexp, op)
    /\ tape' = Append(tape, op)

Support(a) == {idx \in DOMAIN a : a[idx] # 0}

\* qml.sample(qml.PauliZ(q)): +1 when wire q reads 0, -1 when it reads 1.
PauliZSample(sample, q) == IF Bit(sample, q) = 0 THEN 1 ELSE -1

MeasureWithAncilla(smp, n) ==
    [q \in 1 .. (n + 1) |-> [s \in DOMAIN smp |-> PauliZSample(smp[s], q - 1)]]

\* [qml.sample(qml.PauliZ(i)) for i in range(n_qubits)]
Measure(smp, n) ==
    [q \in 1 .. n |-> [s \in DOMAIN smp |-> PauliZSample(smp[s], q - 1)]]

\* ''.join(['0' if r[i] == 1 else '1' for r in results])
Bitstring(res, s) ==
    [q \in 1 .. Len(res) |-> IF res[q][s] = 1 THEN "0" ELSE "1"]

Get(d, k, default) == IF k \in DOMAIN d THEN d[k] ELSE default

CountUpdateFromOne(c, b) ==
    [k \in DOMAIN c \cup {b} |-> IF k = b THEN Get(c, b, 1) + 1 ELSE c[k]]

\* counts[bitstring] = counts.get(bitstring, 0) + 1
CountUpdate(c, b) ==
    [k \in DOMAIN c \cup {b} |-> IF k = b THEN Get(c, b, 0) + 1 ELSE c[k]]

\* {k: v / shots for k, v in counts.items()}
ToProbabilities(c, s) == [k \in DOMAIN c |-> <<c[k], s>>]

LocalsFresh ==
    /\ samples = <<>>
    /\ results = <<>>
    /\ bitstrings = <<>>
    /\ counts = <<>>
    /\ probabilities = <<>>

CaseFresh ==
    /\ zero_prob = <<0, 1>>
    /\ result = "none"
    /\ correct = FALSE
    /\ classical_queries = 0

ConstVars == <<n_qubits, shots>>
RegisterVars == <<amp, hexp, tape>>
LocalVars == <<samples, results, bitstrings, counts, probabilities>>
CaseVars == <<zero_prob, result, correct, classical_queries>>

DeviceCreate ==
    /\ pc = "device"
    /\ IF DeviceAcceptsShots(shots)
         THEN /\ pc' = "PauliX"
              /\ amp' = InitialState(n_qubits)
              /\ hexp' = 0
              /\ tape' = <<>>
              /\ samples' = <<>>
              /\ results' = <<>>
              /\ bitstrings' = <<>>
              /\ counts' = <<>>
              /\ probabilities' = <<>>
         ELSE /\ pc' = "DeviceError"
              /\ UNCHANGED <<RegisterVars, LocalVars>>
    /\ UNCHANGED <<ConstVars, tc, i, CaseVars, test_results, ngates>>

CircuitPauliX ==
    /\ pc = "PauliX"
    /\ Emit(XGate(n_qubits))
    /\ pc' = "Hadamard1"
    /\ i' = 0
    /\ UNCHANGED <<ConstVars, tc, LocalVars, CaseVars, test_results, ngates>>

CircuitHadamard1 ==
    /\ pc = "Hadamard1"
    /\ IF i < Hadamard1Range(n_qubits)
         THEN /\ Emit(HGate(i))
              /\ i' = i + 1
              /\ pc' = pc
         ELSE /\ pc' = "Oracle"
              /\ i' = 0
              /\ UNCHANGED RegisterVars
    /\ UNCHANGED <<ConstVars, tc, LocalVars, CaseVars, test_results, ngates>>

CircuitOracle ==
    /\ pc = "Oracle"
    /\ LET ops == OracleOps(test_cases[tc].oracle, n_qubits)
       IN IF i < Len(ops)
            THEN /\ Emit(ops[i + 1])
                 /\ i' = i + 1
                 /\ pc' = pc
            ELSE /\ pc' = "Hadamard2"
                 /\ i' = 0
                 /\ UNCHANGED RegisterVars
    /\ UNCHANGED <<ConstVars, tc, LocalVars, CaseVars, test_results, ngates>>

CircuitHadamard2 ==
    /\ pc = "Hadamard2"
    /\ IF i < Hadamard2Range(n_qubits)
         THEN /\ Emit(HGate(i))
              /\ i' = i + 1
              /\ pc' = pc
         ELSE /\ pc' = "sample"
              /\ i' = 0
              /\ UNCHANGED RegisterVars
    /\ UNCHANGED <<ConstVars, tc, LocalVars, CaseVars, test_results, ngates>>

\* The device draws every shot from the final state's distribution.
Sample ==
    /\ pc = "sample"
    /\ \E smp \in [1 .. shots -> Support(amp)] :
          /\ samples' = smp
          /\ results' = Measure(smp, n_qubits)
    /\ pc' = "convert"
    /\ i' = 0
    /\ UNCHANGED <<ConstVars, tc, RegisterVars, bitstrings, counts, probabilities,
                   CaseVars, test_results, ngates>>

ConvertShot ==
    /\ pc = "convert"
    /\ IF i < shots
         THEN /\ bitstrings' = Append(bitstrings, Bitstring(results, i + 1))
              /\ i' = i + 1
              /\ pc' = pc
         ELSE /\ pc' = "count"
              /\ i' = 0
              /\ UNCHANGED bitstrings
    /\ UNCHANGED <<ConstVars, tc, RegisterVars, samples, results, counts, probabilities,
                   CaseVars, test_results, ngates>>

CountStep ==
    /\ pc = "count"
    /\ IF i < Len(bitstrings)
         THEN /\ counts' = CountUpdate(counts, bitstrings[i + 1])
              /\ i' = i + 1
              /\ pc' = pc
         ELSE /\ pc' = "normalise"
              /\ i' = 0
              /\ UNCHANGED counts
    /\ UNCHANGED <<ConstVars, tc, RegisterVars, samples, results, bitstrings, probabilities,
                   CaseVars, test_results, ngates>>

Normalise ==
    /\ pc = "normalise"
    /\ probabilities' = ToProbabilities(counts, shots)
    /\ pc' = "classify"
    /\ UNCHANGED <<ConstVars, tc, RegisterVars, i, samples, results, bitstrings, counts,
                   CaseVars, test_results, ngates>>

-----------------------------------------------------------------------------
(* test_deutsch_jozsa, classical_algorithm, visualize_results, main *)

\* zero_state = '0' * n_qubits
ZeroState(n) == [q \in 1 .. n |-> "0"]

ClassificationAtLeast(p) ==
    IF p[1] * ThresholdDen >= ThresholdNum * p[2] THEN "CONSTANT" ELSE "BALANCED"

\* if zero_prob > 0.9, for zero_prob = p[1] / p[2]
Classification(p) ==
    IF p[1] * ThresholdDen > ThresholdNum * p[2] THEN "CONSTANT" ELSE "BALANCED"

Correct(res, function_type) ==
    IF res = "CONSTANT" THEN function_type = "constant"
                        ELSE function_type = "balanced"

classical_algorithm_off_by_one(function_type, n) ==
    IF function_type = "constant" THEN 2 ELSE 2 ^ n + 1

classical_algorithm(function_type, n) ==
    IF function_type = "constant" THEN 2 ELSE 2 ^ (n - 1) + 1

Classify ==
    /\ pc = "classify"
    /\ LET zp == Get(probabilities, ZeroState(n_qubits), <<0, 1>>)
       IN /\ zero_prob' = zp
          /\ result' = Classification(zp)
          /\ correct' = Correct(Classification(zp), test_cases[tc].type)
    /\ pc' = "classical"
    /\ UNCHANGED <<ConstVars, tc, RegisterVars, i, LocalVars, classical_queries,
                   test_results, ngates>>

Classical ==
    /\ pc = "classical"
    /\ classical_queries' = classical_algorithm(test_cases[tc].type, n_qubits)
    /\ pc' = "append"
    /\ UNCHANGED <<ConstVars, tc, RegisterVars, i, LocalVars, zero_prob, result, correct,
                   test_results, ngates>>

\* results.append({...}); then the next test case, or return to main, which
\* calls visualize_results.
AppendResult ==
    /\ pc = "append"
    /\ test_results' = Append(test_results,
                              [name |-> test_cases[tc].name,
                               type |-> test_cases[tc].type,
                               result |-> result,
                               correct |-> correct,
                               probabilities |-> probabilities,
                               classical_queries |-> classical_queries])
    /\ IF tc < Len(test_cases)
         THEN /\ tc' = tc + 1
              /\ pc' = "device"
         ELSE /\ tc' = tc
              /\ pc' = "visualize"
    /\ i' = 0
    /\ UNCHANGED <<ConstVars, RegisterVars, LocalVars, CaseVars, ngates>>

\* One pass of visualize_results' loop: bitstrings.index('0' * n_qubits) raises
\* ValueError when the key is not there.  After the last entry the figure is
\* saved and main prints "Demonstration Complete!".
Visualize ==
    /\ pc = "visualize"
    /\ IF i < Len(test_results)
         THEN IF ZeroState(n_qubits) \in DOMAIN test_results[i + 1].probabilities
                THEN /\ i' = i + 1
                     /\ pc' = pc
                ELSE /\ i' = i
                     /\ pc' = "ValueError"
         ELSE /\ i' = i
              /\ pc' = "complete"
    /\ UNCHANGED <<ConstVars, tc, RegisterVars, LocalVars, CaseVars, test_results, ngates>>

-----------------------------------------------------------------------------
(* The program: main() for a qubit count and a shot count *)

Init ==
    /\ n_qubits \in 1 .. MaxN
    /\ shots \in 0 .. MaxShots
    /\ pc = "device"
    /\ tc = 1
    /\ amp = InitialState(n_qubits)
    /\ hexp = 0
    /\ i = 0
    /\ tape = <<>>
    /\ LocalsFresh
    /\ CaseFresh
    /\ test_results = <<>>
    /\ ngates = 0

Next ==
    \/ DeviceCreate
    \/ CircuitPauliX
    \/ CircuitHadamard1
    \/ CircuitOracle
    \/ CircuitHadamard2
    \/ Sample
    \/ ConvertShot
    \/ CountStep
    \/ Normalise
    \/ Classify
    \/ Classical
    \/ AppendResult
    \/ Visualize

Spec == Init /\ [][Next]_vars

-----------------------------------------------------------------------------
(* Any sequence of gates on a fresh register *)

GateSet(n) ==
    {XGate(t) : t \in 0 .. n} \cup {HGate(t) : t \in 0 .. n}
        \cup {CXGate(w[1], w[2]) : w \in {v \in (0 .. n) \X (0 .. n) : v[1] # v[2]}}

InitGates ==
    /\ n_qubits \in 1 .. MaxGateN
    /\ shots = 1
    /\ pc = "gates"
    /\ tc = 1
    /\ amp = InitialState(n_qubits)
    /\ hexp = 0
    /\ i = 0
    /\ tape = <<>>
    /\ LocalsFresh
    /\ CaseFresh
    /\ test_results = <<>>
    /\ ngates = 0

GateStep ==
    /\ pc = "gates"
    /\ ngates < MaxGates
    /\ \E op \in GateSet(n_qubits) : Emit(op)
    /\ ngates' = ngates + 1
    /\ UNCHANGED <<ConstVars, pc, tc, i, LocalVars, CaseVars, test_results>>

\* Arbitrary gate sequences, and the program's own circuits.
SpecGates == (Init \/ InitGates) /\ [][Next \/ GateStep]_vars

-----------------------------------------------------------------------------
(* The tally of deutsch_jozsa_probability on any measured outcomes *)

InitTally ==
    /\ n_qubits \in 1 .. MaxTallyN
    /\ shots \in 1 .. MaxTallyShots
    /\ pc = "convert"
    /\ tc = 1
    /\ amp = InitialState(n_qubits)
    /\ hexp = 0
    /\ i = 0
    /\ tape = <<>>
    /\ samples \in [1 .. shots -> 0 .. (2 ^ (n_qubits + 1) - 1)]
    /\ results = Measure(samples, n_qubits)
    /\ bitstrings = <<>>
    /\ counts = <<>>
    /\ probabilities = <<>>
    /\ CaseFresh
    /\ test_results = <<>>
    /\ ngates = 0

NextTally == ConvertShot \/ CountStep \/ Normalise

SpecTally == InitTally /\ [][NextTally]_vars

-----------------------------------------------------------------------------
(* The classification of test_deutsch_jozsa on any empirical distribution *)

Keys(n) == [1 .. n -> {"0", "1"}]

RECURSIVE SumCounts(_, _)
SumCounts(c, K) ==
    IF K = {} THEN 0
    ELSE LET k == CHOOSE x \in K : TRUE IN c[k] + SumCounts(c, K \ {k})

CountTables(n, s) ==
    {c \in UNION {[K -> 1 .. s] : K \in SUBSET Keys(n)} : SumCounts(c, DOMAIN c) = s}

InitClassify ==
    /\ n_qubits \in 1 .. MaxClassN
    /\ shots \in 1 .. MaxClassShots
    /\ pc = "classify"
    /\ tc \in 1 .. Len(test_cases)
    /\ amp = InitialState(n_qubits)
    /\ hexp = 0
    /\ i = 0
    /\ tape = <<>>
    /\ samples = <<>>
    /\ results = <<>>
    /\ bitstrings = <<>>
    /\ counts \in CountTables(n_qubits, shots)
    /\ probabilities = ToProbabilities(counts, shots)
    /\ CaseFresh
    /\ test_results = <<>>
    /\ ngates = 0

NextClassify == Classify \/ Classical

SpecClassify == InitClassify /\ [][NextClassify]_vars

-----------------------------------------------------------------------------
(* Properties *)

RECURSIVE SumSqUpTo(_, _)
SumSqUpTo(a, m) == IF m < 0 THEN 0 ELSE a[m] * a[m] + SumSqUpTo(a, m - 1)

\* Sum of squared magnitudes, times 2^hexp.
NormNum(a) == SumSqUpTo(a, Dim - 1)

\* The input wires' readout of a basis index, wire 0 first, ancilla dropped.
InputKey(idx) == [q \in 1 .. n_qubits |-> IF Bit(idx, q - 1) = 0 THEN "0" ELSE "1"]

RECURSIVE MarginalUpTo(_, _, _)
MarginalUpTo(a, key, m) ==
    IF m < 0 THEN 0
    ELSE (IF InputKey(m) = key THEN a[m] * a[m] ELSE 0) + MarginalUpTo(a, key, m - 1)

\* Probability of an input pattern, summed over the ancilla, times 2^hexp.
MarginalNum(key) == MarginalUpTo(amp, key, Dim - 1)

AllZero == [q \in 1 .. n_qubits |-> "0"]

CircuitDone ==
    pc \in {"sample", "convert", "count", "normalise", "classify", "classical", "append"}

OracleName == test_cases[tc].oracle

\* C1: once the circuit X(ancilla); H on wires 0..n; oracle; H on wires 0..n-1
\* has run, the exact probability of the all-zero input pattern (summed over
\* both ancilla values) is 1 for the two constant oracles and 0 for the two
\* balanced oracles, for every n.
C1_ConstantOneBalancedZero ==
    CircuitDone =>
        /\ OracleName \in {"constant_oracle_0", "constant_oracle_1"}
              => MarginalNum(AllZero) = 2 ^ hexp
        /\ OracleName \in {"balanced_oracle_parity", "balanced_oracle_first_half"}
              => MarginalNum(AllZero) = 0

C1_Witness ==
    /\ pc = "sample"
    /\ n_qubits = 3
    /\ OracleName = "balanced_oracle_parity"
    /\ MarginalNum(AllZero) = 0
    /\ hexp = 7

P0 == IF AllZero \in DOMAIN probabilities THEN probabilities[AllZero] ELSE <<0, 1>>

Classified == pc \in {"classical", "append"}

\* C2: with p0 the probability stored under the key of n zeros, or 0 when the
\* key is absent, the result is CONSTANT exactly when p0 > 0.9 and BALANCED
\* otherwise (so p0 = 0.9 gives BALANCED), and the correct flag is true exactly
\* when the result names the oracle's declared type.
C2_ClassifierRule ==
    Classified =>
        /\ zero_prob = P0
        /\ result \in {"CONSTANT", "BALANCED"}
        /\ result = "CONSTANT" <=> 10 * P0[1] > 9 * P0[2]
        /\ 10 * P0[1] = 9 * P0[2] => result = "BALANCED"
        /\ correct <=> \/ result = "CONSTANT" /\ test_cases[tc].type = "constant"
                       \/ result = "BALANCED" /\ test_cases[tc].type = "balanced"

C2_Witness ==
    /\ Classified
    /\ P0 = <<9, 10>>
    /\ result = "BALANCED"
    /\ test_cases[tc].type = "constant"
    /\ ~correct

Observed == {InputKey(samples[s]) : s \in 1 .. shots}

Occurrences(key) == Cardinality({s \in 1 .. shots : InputKey(samples[s]) = key})

\* C3: for S >= 1 shots the returned distribution's counts sum to S, every
\* probability is count / S with 1 <= count <= S (so it lies in [0,1] and the
\* probabilities sum to 1), and its keys are exactly the bitstrings observed at
\* least once, each with the number of shots that gave it.
C3_CountsSumToShots ==
    (pc = "classify" /\ shots >= 1) =>
        /\ SumCounts(counts, DOMAIN counts) = shots
        /\ DOMAIN probabilities = Observed
        /\ \A k \in DOMAIN probabilities :
              /\ probabilities[k][2] = shots
              /\ probabilities[k][1] = Occurrences(k)
              /\ 1 <= probabilities[k][1]
              /\ probabilities[k][1] <= probabilities[k][2]
        /\ SumCounts([k \in DOMAIN probabilities |-> probabilities[k][1]],
                     DOMAIN probabilities) = shots

C3_Witness ==
    /\ pc = "classify"
    /\ shots = 3
    /\ n_qubits = 2
    /\ Cardinality(DOMAIN probabilities) = 2
    /\ <<"0", "1">> \in DOMAIN probabilities
    /\ probabilities[<<"0", "1">>] = <<2, 3>>

FirstHalfDone == pc = "sample" /\ n_qubits = 1 /\ OracleName = "balanced_oracle_first_half"

\* C4 as stated: for n = 1 and the balanced-first-half oracle the input qubit
\* is uniform over {0,1}, p0 = 0.5.
C4_Claimed ==
    FirstHalfDone =>
        /\ 2 * MarginalNum(<<"0">>) = 2 ^ hexp
        /\ 2 * MarginalNum(<<"1">>) = 2 ^ hexp

\* C4 as amended: for n = 1 and the balanced-first-half oracle the input qubit
\* reads 1 with probability 1, so p0 = 0.
C4_FirstHalfReadsOne ==
    FirstHalfDone =>
        /\ MarginalNum(<<"0">>) = 0
        /\ MarginalNum(<<"1">>) = 2 ^ hexp

C4_Witness == FirstHalfDone /\ hexp = 3 /\ Len(tape) = 5

\* C5: from amplitude 1 at index 0, after any sequence of BitFlip, Hadamard and
\* ControlledNot (control # target) on wires 0..n the squared magnitudes sum to
\* 1 and the vector still has 2^(n+1) entries; so too after every stage of the
\* Deutsch-Jozsa circuit.
C5_UnitNorm ==
    /\ DOMAIN amp = 0 .. (2 ^ (n_qubits + 1) - 1)
    /\ NormNum(amp) = 2 ^ hexp

C5_Witness ==
    /\ pc = "gates"
    /\ ngates = 3
    /\ hexp = 2
    /\ tape[3].g = "CNOT"
    /\ Cardinality(Support(amp)) = 4

C7_ClassicalQueries ==
    pc = "append" =>
        /\ test_cases[tc].type = "constant" => classical_queries = 2
        /\ test_cases[tc].type = "balanced" => 2 * (classical_queries - 1) = 2 ^ n_qubits
        /\ classical_queries >= 2
        /\ n_qubits = 1 => classical_queries = 2

C7_Witness ==
    /\ pc = "append"
    /\ n_qubits = 3
    /\ test_cases[tc].type = "balanced"
    /\ classical_queries = 5

Stage ==
    CASE pc = "PauliX" -> 1
      [] pc = "Hadamard1" -> 2
      [] pc = "Oracle" -> 3
      [] pc = "Hadamard2" -> 4
      [] CircuitDone -> 5
      [] OTHER -> 0

Hadamards(k) == [j \in 1 .. k |-> [g |-> "Hadamard", wires |-> <<j - 1>>]]

BitFlipAncilla == <<[g |-> "PauliX", wires |-> <<n_qubits>>]>>

ListedOracle ==
    CASE OracleName = "constant_oracle_0" -> <<>>
      [] OracleName = "constant_oracle_1" -> BitFlipAncilla
      [] OracleName = "balanced_oracle_parity" ->
            [j \in 1 .. n_qubits |-> [g |-> "CNOT", wires |-> <<j - 1, n_qubits>>]]
      [] OracleName = "balanced_oracle_first_half" ->
            <<[g |-> "CNOT", wires |-> <<0, n_qubits>>]>>

C8_TapeByStage ==
    /\ Stage = 1 => tape = <<>>
    /\ Stage = 2 => i <= n_qubits + 1 /\ tape = BitFlipAncilla \o Hadamards(i)
    /\ Stage = 3 =>
          /\ i <= Len(ListedOracle)
          /\ tape = BitFlipAncilla \o Hadamards(n_qubits + 1) \o SubSeq(ListedOracle, 1, i)
    /\ Stage = 4 =>
          /\ i <= n_qubits
          /\ tape = BitFlipAncilla \o Hadamards(n_qubits + 1) \o ListedOracle \o Hadamards(i)
    /\ Stage = 5 =>
          /\ tape = BitFlipAncilla \o Hadamards(n_qubits + 1) \o ListedOracle
                       \o Hadamards(n_qubits)
          /\ tape = deutsch_jozsa_circuit(n_qubits, OracleName)

C8_StageStep ==
    /\ Stage \in 1 .. 4 => Stage' \in {Stage, Stage + 1}
    /\ Stage = 5 => Stage' \in {5, 0} /\ tape' = tape /\ amp' = amp /\ hexp' = hexp
    /\ Stage = 0 => Stage' \in {0, 1}

\* C8: a circuit run goes Init (BitFlip on the ancilla) -> SpreadHadamard1
\* (Hadamard on each of wires 0..n once) -> Oracle (its gates as listed) ->
\* SpreadHadamard2 (Hadamard on each of wires 0..n-1 once, not the ancilla) ->
\* Done, no stage skipped or revisited and no gate after Done; the operations
\* queued are those deutsch_jozsa_circuit queues for the same n and oracle.
C8_StageOrder == [][C8_StageStep /\ C8_TapeByStage']_vars

C8_Witness ==
    /\ pc = "sample"
    /\ n_qubits = 3
    /\ OracleName = "balanced_oracle_parity"
    /\ Len(tape) = 11
    /\ tape[11] = [g |-> "Hadamard", wires |-> <<2>>]

\* C9: every shot becomes a bitstring of exactly n characters; character q is
\* '0' when the PauliZ outcome of input wire q is +1 and '1' when it is -1, so
\* it is the shot's readout of the input wires, wire 0 leftmost, and the
\* ancilla adds no character; a shot with every input wire 0 gives '0' * n.
C9_BitstringPerShot ==
    \A s \in 1 .. Len(bitstrings) :
        /\ Len(bitstrings[s]) = n_qubits
        /\ Len(results) = n_qubits
        /\ \A q \in 1 .. n_qubits :
              /\ results[q][s] = 1 => bitstrings[s][q] = "0"
              /\ results[q][s] = -1 => bitstrings[s][q] = "1"
              /\ bitstrings[s][q] = "1" <=> (samples[s] \div 2 ^ (n_qubits + 1 - q)) % 2 = 1
        /\ bitstrings[s] = ZeroState(n_qubits) <=> samples[s] \in {0, 1}

C9_Witness ==
    /\ pc = "count"
    /\ n_qubits = 2
    /\ shots = 2
    /\ samples = <<5, 2>>
    /\ bitstrings = << <<"1", "0">>, <<"0", "1">> >>

\* C10 as stated: for every entry of the result list, visualize_results finds
\* '0' * n among the keys of the entry's distribution, so main never stops
\* with an error there.
C10_Claimed ==
    /\ pc # "ValueError"
    /\ pc = "visualize" =>
          \A e \in 1 .. Len(test_results) :
              ZeroState(n_qubits) \in DOMAIN test_results[e].probabilities

=============================================================================
